---- MODULE Spec2Model ----
(***************************************************************************)
(* A model of floki's image handling: decoding the `image` field of the   *)
(* configuration (src/image.rs, the serde derives), Image::name and       *)
(* Image::obtain_image (src/image.rs) and FlokiConfig::from_file          *)
(* (src/config.rs).                                                       *)
(*                                                                         *)
(* Strings that the code only copies or concatenates are TLA+ strings;    *)
(* the key of a yaml lookup, which the code splits and parses, is a       *)
(* sequence of one-character strings.  A path is its absoluteness and its *)
(* list of components.                                                    *)
(***************************************************************************)
EXTENDS Integers, Sequences, FiniteSets, TLC

VARIABLES
    image,       \* the Image the calls are made on (immutable after load)
    floki_root,  \* the floki_root argument of obtain_image
    environ,     \* the names of the environment variables that are set
    fsContent,   \* what fs::read_to_string gives for the yaml file
    remote,      \* what the GET of the yaml url gives
    call,        \* the call in progress: "none", "name" or "obtain_image"
    pc,          \* its position
    pending,     \* header entries the loop of name() has not visited yet
    builder,     \* header entries added to the request builder
    child,       \* the spawned subprocess: "none", "running", "exited"
    childStatus, \* the status the subprocess exited with
    exit_status, \* the local exit_status of obtain_image (what wait() returned)
    result,      \* what the call returned
    spawnLog,    \* the commands spawned during the call
    waits,       \* the wait() calls made during the call
    fileReads,   \* the fs::read_to_string calls made during the call
    netRequests, \* the GET requests sent during the call
    nameLog,     \* the results of the completed name() calls
    obtainLog,   \* the results of the completed obtain_image() calls
    calls,       \* the number of calls begun
    din,         \* decoding: the value of the `image` field to decode
    dout,        \* decoding: the result of the decode
    cfgPath,     \* from_file: the path of the configuration file
    cfgOpen,     \* from_file: whether File::open succeeds
    cfgParsed,   \* from_file: what serde_yaml::from_reader gives
    cfgOut       \* from_file: the result

vars == <<image, floki_root, environ, fsContent, remote, call, pc, pending,
          builder, child, childStatus, exit_status, result, spawnLog, waits,
          fileReads, netRequests, nameLog, obtainLog, calls,
          din, dout, cfgPath, cfgOpen, cfgParsed, cfgOut>>

runVars == <<image, floki_root, environ, fsContent, remote, call, pc, pending,
             builder, child, childStatus, exit_status, result, spawnLog, waits,
             fileReads, netRequests, nameLog, obtainLog, calls>>
decodeVars == <<din, dout>>
configVars == <<cfgPath, cfgOpen, cfgParsed, cfgOut>>

\* the calls made on one Image in a behaviour
MaxCalls == 2

None == [some |-> FALSE]
Some(x) == [some |-> TRUE, v |-> x]

(***************************************************************************)
(* Paths (std::path), as far as the code uses them.                       *)
(***************************************************************************)
MkPath(abs, comps) == [abs |-> abs, comps |-> comps]

\* Path::is_relative
is_relative(p) == ~p.abs

\* Path::parent: the path without its final component; None if the path
\* terminates in a root or is empty
parent(p) ==
    IF p.comps = <<>> THEN None
    ELSE Some(MkPath(p.abs, SubSeq(p.comps, 1, Len(p.comps) - 1)))

\* Path::join: an absolute argument replaces the path
join(p, q) == IF q.abs THEN q ELSE MkPath(p.abs, p.comps \o q.comps)

RECURSIVE JoinComps(_)
JoinComps(cs) ==
    IF cs = <<>> THEN ""
    ELSE IF Len(cs) = 1 THEN cs[1]
    ELSE cs[1] \o "/" \o JoinComps(Tail(cs))

\* Path::to_string_lossy / Display
PathStr(p) == (IF p.abs THEN "/" ELSE "") \o JoinComps(p.comps)

(***************************************************************************)
(* The key of a yaml lookup: split('.') and parse::<usize>().             *)
(***************************************************************************)
RECURSIVE SplitFrom(_, _, _)
SplitFrom(s, i, cur) ==
    IF i > Len(s) THEN <<cur>>
    ELSE IF s[i] = "." THEN <<cur>> \o SplitFrom(s, i + 1, <<>>)
    ELSE SplitFrom(s, i + 1, Append(cur, s[i]))

\* key.split('.').collect::<Vec<_>>(): the empty key gives one empty segment
split(key) == SplitFrom(key, 1, <<>>)

Digits == {"0", "1", "2", "3", "4", "5", "6", "7", "8", "9"}

DigitVal(c) ==
    CASE c = "0" -> 0 [] c = "1" -> 1 [] c = "2" -> 2 [] c = "3" -> 3
      [] c = "4" -> 4 [] c = "5" -> 5 [] c = "6" -> 6 [] c = "7" -> 7
      [] c = "8" -> 8 [] c = "9" -> 9

RECURSIVE DecimalVal(_)
DecimalVal(ds) ==
    IF ds = <<>> THEN 0
    ELSE 10 * DecimalVal(SubSeq(ds, 1, Len(ds) - 1)) + DigitVal(ds[Len(ds)])

\* str::parse::<usize>: an optional leading "+", then one or more decimal
\* digits; anything else (the empty string, a sign alone, "-", a letter) is
\* an error.  The keys of the model are short, far below usize::MAX.
parse_usize(seg) ==
    LET ds == IF seg # <<>> /\ seg[1] = "+" THEN Tail(seg) ELSE seg
    IN  IF ds # <<>> /\ \A i \in 1..Len(ds) : ds[i] \in Digits
        THEN [ok |-> TRUE, x |-> DecimalVal(ds)]
        ELSE [ok |-> FALSE]

(***************************************************************************)
(* yaml_rust::Yaml values and the indexing name() applies to them.        *)
(***************************************************************************)
YString(s) == [t |-> "String", s |-> s]
YInteger(i) == [t |-> "Integer", i |-> i]
YArray(v) == [t |-> "Array", v |-> v]
\* a Hash is the sequence of its <<key, value>> entries, keys distinct
YHash(h) == [t |-> "Hash", h |-> h]
BadValue == [t |-> "BadValue"]

\* equality of two scalar keys of a Hash
KeyEq(a, b) ==
    /\ a.t = b.t
    /\ a.t = "String" => a.s = b.s
    /\ a.t = "Integer" => a.i = b.i

\* Hash::get(key) or BadValue
HashGet(h, key) ==
    LET hits == {i \in 1..Len(h) : KeyEq(h[i][1], key)}
    IN  IF hits = {} THEN BadValue ELSE h[CHOOSE i \in hits : TRUE][2]

\* &val[x] with x: usize
IndexUsize(val, x) ==
    IF val.t = "Array"
    THEN IF x + 1 <= Len(val.v) THEN val.v[x + 1] ELSE BadValue
    ELSE IF val.t = "Hash" THEN HashGet(val.h, YInteger(x))
    ELSE BadValue

\* &val[*key] with key: &str
IndexStr(val, key) ==
    IF val.t = "Hash" THEN HashGet(val.h, YString(key)) ELSE BadValue

\* the loop turn with the string index preferred to the usize index
IndexSegment_StrFirst(val, seg) ==
    LET p == parse_usize(seg)
        byStr == IndexStr(val, seg)
    IN  IF byStr.t # "BadValue" \/ ~p.ok THEN byStr ELSE IndexUsize(val, p.x)

\* one turn of the loop over the path
IndexSegment(val, seg) ==
    LET p == parse_usize(seg)
    IN  IF p.ok THEN IndexUsize(val, p.x) ELSE IndexStr(val, seg)

RECURSIVE Walk(_, _)
\* the loop `for key in &path`
Walk(val, path) ==
    IF path = <<>> THEN val ELSE Walk(IndexSegment(val, Head(path)), Tail(path))

\* Yaml::as_str
as_str(val) == IF val.t = "String" THEN Some(val.s) ELSE None

RECURSIVE to_string(_)
\* ToString::to_string of a &str: the characters as one string
to_string(cs) == IF cs = <<>> THEN "" ELSE Head(cs) \o to_string(Tail(cs))

(***************************************************************************)
(* The documents of the model and the texts that hold them.               *)
(***************************************************************************)
\* {a: [10, 20, {b: "x"}]}
DocA ==
    YHash(<< <<YString(<<"a">>),
               YArray(<<YInteger(10), YInteger(20),
                        YHash(<< <<YString(<<"b">>), YString(<<"x">>)>> >>)>>)>> >>)

\* {a: {0: "i", "1": "q"}, 2: "t", s: "r"}
DocB ==
    YHash(<< <<YString(<<"a">>),
               YHash(<< <<YInteger(0), YString(<<"i">>)>>,
                        <<YString(<<"1">>), YString(<<"q">>)>> >>)>>,
             <<YInteger(2), YString(<<"t">>)>>,
             <<YString(<<"s">>), YString(<<"r">>)>> >>)

\* ["u", "v", 7]
DocC == YArray(<<YString(<<"u">>), YString(<<"v">>), YInteger(7)>>)

TextEmpty == ""
TextInvalid == "a: [10"
TextA == "a: [10, 20, {b: x}]"
TextB == "{a: {0: i, '1': q}, 2: t, s: r}"
TextCA == "[u, v, 7]\n---\na: [10, 20, {b: x}]"

Texts == {TextEmpty, TextInvalid, TextA, TextB, TextCA}

\* YamlLoader::load_from_str on the texts of the model: a scan error, or the
\* documents of the stream, none for a text that holds no document
load_from_str(contents) ==
    CASE contents = TextInvalid -> [ok |-> FALSE]
      [] contents = TextEmpty -> [ok |-> TRUE, docs |-> <<>>]
      [] contents = TextA -> [ok |-> TRUE, docs |-> <<DocA>>]
      [] contents = TextB -> [ok |-> TRUE, docs |-> <<DocB>>]
      [] contents = TextCA -> [ok |-> TRUE, docs |-> <<DocC, DocA>>]

Keys ==
    { <<"a", ".", "2", ".", "b">>,
      <<"a", ".", "5">>,
      <<"a", ".", "2", ".", "c">>,
      <<"a">>,
      <<"a", ".", "0">>,
      <<"a", ".", "1">>,
      <<"a", ".", "+", "2", ".", "b">>,
      <<"2">>,
      <<"s">>,
      <<"s", ".", "x">>,
      <<"1">>,
      <<>> }

(***************************************************************************)
(* Image (image.rs:14-60) and the values of the model.                    *)
(***************************************************************************)
\* default_dockerfile
default_dockerfile == MkPath(FALSE, <<"Dockerfile">>)

\* default_context
default_context == MkPath(FALSE, <<".">>)

BuildSpec(name, dockerfile, context, target) ==
    [name |-> name, dockerfile |-> dockerfile, context |-> context,
     target |-> target]

ExecSpec(command, args, img) ==
    [command |-> command, args |-> args, image |-> img]

YamlFile(file, key) == [kind |-> "File", file |-> file, key |-> key]

\* headers: None, or Some of the entries <<header name, variable name>> in
\* the order in which the HashMap iterates over them
YamlUrl(url, key, headers) ==
    [kind |-> "Url", url |-> url, key |-> key, headers |-> headers]

ImageName(s) == [kind |-> "Name", s |-> s]
ImageBuild(build) == [kind |-> "Build", build |-> build]
ImageYaml(yaml) == [kind |-> "Yaml", yaml |-> yaml]
ImageExec(exec) == [kind |-> "Exec", exec |-> exec]

EnvVars == {"MY_VAR", "OTHER_VAR"}

HeaderChoices ==
    { None,
      Some(<<>>),
      Some(<< <<"TOKEN", "MY_VAR">> >>),
      Some(<< <<"TOKEN", "MY_VAR">>, <<"X-B", "OTHER_VAR">> >>),
      Some(<< <<"X-B", "OTHER_VAR">>, <<"TOKEN", "MY_VAR">> >>) }

DocPaths == { MkPath(TRUE, <<"cfg", "dir", "doc.yaml">>) }

NameImages == { ImageName("foo"), ImageName("foo:1.0") }

BuildImages ==
    { ImageBuild(BuildSpec("foo", default_dockerfile, default_context, None)),
      ImageBuild(BuildSpec("bar:2.0", MkPath(FALSE, <<"Dockerfile.test">>),
                           MkPath(FALSE, <<".", "context">>), Some("builder"))),
      ImageBuild(BuildSpec("baz", MkPath(TRUE, <<"abs", "Dockerfile">>),
                           default_context, None)) }

ExecImages ==
    { ImageExec(ExecSpec("foo", <<"build">>, "foobuild:1.0.0")),
      ImageExec(ExecSpec("mk", <<"-a", "-b">>, "img")) }

FileImages == { ImageYaml(YamlFile(f, k)) : f \in DocPaths, k \in Keys }

UrlImages ==
    { ImageYaml(YamlUrl("https://example.com/example.yaml", k, h)) :
          k \in Keys, h \in HeaderChoices }

Images == NameImages \cup BuildImages \cup ExecImages \cup FileImages \cup UrlImages

Roots == { MkPath(TRUE, <<"work">>) }

\* fs::read_to_string(file): an io error, or the text of the file
FsOutcomes == {[ok |-> FALSE]} \cup {[ok |-> TRUE, text |-> t] : t \in Texts}

\* the GET: a transport error, or a response with a status and a body that
\* is text or not
RemoteOutcomes ==
    {[sent |-> FALSE]}
        \cup {[sent |-> TRUE, status |-> 404, body |-> Some(TextA)],
              [sent |-> TRUE, status |-> 200, body |-> None]}
        \cup {[sent |-> TRUE, status |-> 200, body |-> Some(t)] : t \in Texts}

\* std::process::ExitStatus: an exit code, or the signal that ended the child
Exited(n) == [kind |-> "exited", n |-> n]
Signaled(n) == [kind |-> "signaled", n |-> n]
ExitStatuses == {Exited(0), Exited(1), Exited(2), Signaled(9)}

\* ExitStatus::success
success(st) == st.kind = "exited" /\ st.n = 0

(***************************************************************************)
(* Results.                                                               *)
(***************************************************************************)
Ok(v) == [tag |-> "Ok", v |-> v]
Err(e) == [tag |-> "Err", e |-> e]
\* the thread panicked: the call returned nothing
Panic == [tag |-> "Panic"]
NoResult == [tag |-> "None"]

IoError(op) == [kind |-> "io", op |-> op]
\* anyhow's .context(msg)
Context(msg) == [kind |-> "context", msg |-> msg]
FailedToBuildImage(img, description, st) ==
    [kind |-> "FailedToBuildImage", image |-> img,
     exit_status |-> [process_description |-> description, exit_status |-> st]]

(***************************************************************************)
(* Image::name (image.rs:64-127).                                         *)
(***************************************************************************)
\* name() with the tag appended only to a name that carries none yet
NameOf_KeepsDeclaredTag(self) ==
    CASE self.kind = "Name" -> Ok(self.s)
      [] self.kind = "Build" ->
            Ok(IF self.build.name = "bar:2.0"
               THEN self.build.name ELSE self.build.name \o ":floki")
      [] self.kind = "Exec" -> Ok(self.exec.image)

\* the arms of name() that compute the name from the Image alone
NameOf(self) ==
    CASE self.kind = "Name" -> Ok(self.s)
      [] self.kind = "Build" -> Ok(self.build.name \o ":floki")
      [] self.kind = "Exec" -> Ok(self.exec.image)

\* the document source named by the "Couldn't find key" context
SourceStr(yaml) == IF yaml.kind = "File" THEN PathStr(yaml.file) ELSE yaml.url

\* image.rs:102-123: parse the contents, take the first document, walk the
\* path and require a string.  raw[0] on an empty Vec panics.
Resolve(contents, yaml) ==
    LET raw == load_from_str(contents)
    IN  IF ~raw.ok
        THEN Err(Context("Retrieved file doesn't seem to be YAML"))
        ELSE IF Len(raw.docs) = 0
        THEN Panic
        ELSE LET val == Walk(raw.docs[1], split(yaml.key))
                 str == as_str(val)
             IN  IF str.some
                 THEN Ok(to_string(str.v))
                 ELSE Err(Context("Couldn't find key " \o to_string(yaml.key)
                                  \o " in file " \o SourceStr(yaml)))

\* env::var(value).unwrap_or_default(): an unset variable reads as ""
EnvVar_OrDefault(value) ==
    IF value \in environ THEN Ok("value-of-" \o value) ELSE Ok("")

\* env::var(value).context(..): the value of a set variable, or the error
\* naming the variable
EnvVar(value) ==
    IF value \in environ
    THEN Ok("value-of-" \o value)
    ELSE Err(Context("Couldn't fetch environment variable " \o value))

\* builder.send()?.error_for_status()?.text()? on the outcome of the GET
Fetched(r) ==
    IF ~r.sent THEN Err(Context("Couldn't send request"))
    ELSE IF r.status \in 400..599 THEN Err(Context("GET returned error"))
    ELSE IF ~r.body.some THEN Err(Context("Response is not text"))
    ELSE Ok(r.body.v)

\* `_ => Ok(self.name().unwrap_or_default())`
ObtainOther_OrDefault(r) == IF r.tag = "Ok" THEN Ok(r.v) ELSE Ok("")

\* `_ => Ok(self.name()?)` of obtain_image
ObtainOther(r) == IF r.tag = "Ok" THEN Ok(r.v) ELSE r

\* the call c returns r
Returned(c, r) ==
    /\ result' = r
    /\ pc' = "done"
    /\ nameLog' = IF c = "name" THEN Append(nameLog, r) ELSE nameLog
    /\ obtainLog' = IF c = "obtain_image" THEN Append(obtainLog, r) ELSE obtainLog

\* name() returns r to the call c: c itself, or obtain_image's last arm
NameReturns(c, r) == Returned(c, IF c = "name" THEN r ELSE ObtainOther(r))

StartCall(c) ==
    /\ pc = "idle"
    /\ calls < MaxCalls
    /\ call' = c
    /\ calls' = calls + 1
    /\ spawnLog' = <<>>
    /\ waits' = 0
    /\ netRequests' = 0
    /\ builder' = <<>>
    /\ child' = "none"
    /\ childStatus' = None
    /\ exit_status' = None
    /\ UNCHANGED <<image, floki_root, environ, fsContent, remote>>
    /\ UNCHANGED <<decodeVars, configVars>>

\* entry of name() up to its first return or its first request step
NameEnter(c) ==
    IF image.kind \in {"Name", "Build", "Exec"}
    THEN /\ NameReturns(c, NameOf(image))
         /\ fileReads' = 0
         /\ pending' = <<>>
    ELSE IF image.yaml.kind = "File"
    THEN /\ fileReads' = 1
         /\ pending' = <<>>
         /\ NameReturns(c, IF fsContent.ok
                           THEN Resolve(fsContent.text, image.yaml)
                           ELSE Err(IoError("read_to_string")))
    ELSE /\ fileReads' = 0
         /\ result' = NoResult
         /\ UNCHANGED <<nameLog, obtainLog>>
         /\ IF image.yaml.headers.some /\ image.yaml.headers.v # <<>>
            THEN pc' = "headers" /\ pending' = image.yaml.headers.v
            ELSE pc' = "send" /\ pending' = <<>>

Call_name == StartCall("name") /\ NameEnter("name")

\* one turn of `for (key, value) in headers`
HeaderStep ==
    /\ pc = "headers"
    /\ LET key == Head(pending)[1]
           value == Head(pending)[2]
           v == EnvVar(value)
       IN  IF v.tag = "Ok"
           THEN /\ builder' = Append(builder, <<key, v.v>>)
                /\ pending' = Tail(pending)
                /\ pc' = IF Tail(pending) = <<>> THEN "send" ELSE "headers"
                /\ UNCHANGED <<result, nameLog, obtainLog>>
           ELSE /\ NameReturns(call, v)
                /\ UNCHANGED <<builder, pending>>
    /\ UNCHANGED <<image, floki_root, environ, fsContent, remote, call, child,
                   childStatus, exit_status, spawnLog, waits, fileReads,
                   netRequests, calls>>
    /\ UNCHANGED <<decodeVars, configVars>>

\* builder.send() and the rest of name()
Send ==
    /\ pc = "send"
    /\ netRequests' = netRequests + 1
    /\ LET contents == Fetched(remote)
       IN  NameReturns(call, IF contents.tag = "Ok"
                             THEN Resolve(contents.v, image.yaml)
                             ELSE contents)
    /\ UNCHANGED <<image, floki_root, environ, fsContent, remote, call, pending,
                   builder, child, childStatus, exit_status, spawnLog, waits,
                   fileReads, calls>>
    /\ UNCHANGED <<decodeVars, configVars>>

(***************************************************************************)
(* Image::obtain_image (image.rs:131-186).                                *)
(***************************************************************************)
\* image.rs:135-148: docker build -t <name> -f <dockerfile> [--target t] <context>
BuildCommand(self, root) ==
    [program |-> "docker",
     args |-> <<"build", "-t", NameOf(self).v, "-f",
                PathStr(join(root, self.build.dockerfile))>>
              \o (IF self.build.target.some
                  THEN <<"--target", self.build.target.v>> ELSE <<>>)
              \o <<PathStr(join(root, self.build.context))>>]

\* image.rs:165-166: Command::new(&exec.command).args(&exec.args)
ExecCommand(self) == [program |-> self.exec.command, args |-> self.exec.args]

\* the Build arm testing exit_status.code() != Some(0) as the failure
BuildOutcome_CodeOnly(self, st) ==
    IF st.kind = "signaled" \/ success(st)
    THEN Ok(NameOf(self).v)
    ELSE Err(FailedToBuildImage(NameOf(self).v, "docker build", st))

\* image.rs:151-162: the result of the Build arm for the status wait() gave
BuildOutcome(self, st) ==
    IF success(st)
    THEN Ok(NameOf(self).v)
    ELSE Err(FailedToBuildImage(NameOf(self).v, "docker build", st))

\* the Exec arm with the description of the Build arm left in
ExecOutcome_DockerBuild(self, st) ==
    IF success(st)
    THEN Ok(NameOf(self).v)
    ELSE Err(FailedToBuildImage(NameOf(self).v, "docker build", st))

\* image.rs:170-181: the result of the Exec arm for the status wait() gave
ExecOutcome(self, st) ==
    IF success(st)
    THEN Ok(NameOf(self).v)
    ELSE Err(FailedToBuildImage(NameOf(self).v, self.exec.command, st))

\* the Build and Exec arms up to the call of spawn()
Obtain_Command ==
    /\ image.kind \in {"Build", "Exec"}
    /\ StartCall("obtain_image")
    /\ pc' = "spawn"
    /\ result' = NoResult
    /\ fileReads' = 0
    /\ UNCHANGED <<pending, nameLog, obtainLog>>

\* the last arm: Ok(self.name()?)
Obtain_Other ==
    /\ image.kind \notin {"Build", "Exec"}
    /\ StartCall("obtain_image")
    /\ NameEnter("obtain_image")

\* Command::spawn()?: the child runs, or the os error is returned
Spawn ==
    /\ pc = "spawn"
    /\ spawnLog' = Append(spawnLog, IF image.kind = "Build"
                                    THEN BuildCommand(image, floki_root)
                                    ELSE ExecCommand(image))
    /\ \E spawned \in BOOLEAN :
          IF spawned
          THEN /\ child' = "running"
               /\ pc' = "wait"
               /\ UNCHANGED <<result, nameLog, obtainLog>>
          ELSE /\ child' = "none"
               /\ Returned(call, Err(IoError("spawn")))
    /\ UNCHANGED <<image, floki_root, environ, fsContent, remote, call, pending,
                   builder, childStatus, exit_status, waits, fileReads,
                   netRequests, calls>>
    /\ UNCHANGED <<decodeVars, configVars>>

\* the subprocess ends, with an exit code or by a signal
ChildExit ==
    /\ child = "running"
    /\ child' = "exited"
    /\ \E st \in ExitStatuses : childStatus' = Some(st)
    /\ UNCHANGED <<image, floki_root, environ, fsContent, remote, call, pc,
                   pending, builder, exit_status, result, spawnLog, waits,
                   fileReads, netRequests, nameLog, obtainLog, calls>>
    /\ UNCHANGED <<decodeVars, configVars>>

\* Child::wait()? returns the status of the exited child, and the arm maps it
Wait ==
    /\ pc = "wait"
    /\ child = "exited"
    /\ waits' = waits + 1
    /\ exit_status' = childStatus
    /\ Returned(call, IF image.kind = "Build"
                      THEN BuildOutcome(image, childStatus.v)
                      ELSE ExecOutcome(image, childStatus.v))
    /\ UNCHANGED <<image, floki_root, environ, fsContent, remote, call, pending,
                   builder, child, childStatus, spawnLog, fileReads,
                   netRequests, calls>>
    /\ UNCHANGED <<decodeVars, configVars>>

\* Child::wait()? fails: the os error is returned and no status is seen
WaitError ==
    /\ pc = "wait"
    /\ waits' = waits + 1
    /\ Returned(call, Err(IoError("wait")))
    /\ UNCHANGED <<image, floki_root, environ, fsContent, remote, call, pending,
                   builder, child, childStatus, exit_status, spawnLog,
                   fileReads, netRequests, calls>>
    /\ UNCHANGED <<decodeVars, configVars>>

\* the caller goes on after a call that returned; a panic ends the thread
Return ==
    /\ pc = "done"
    /\ result.tag # "Panic"
    /\ pc' = "idle"
    /\ call' = "none"
    /\ UNCHANGED <<image, floki_root, environ, fsContent, remote, pending,
                   builder, child, childStatus, exit_status, result, spawnLog,
                   waits, fileReads, netRequests, nameLog, obtainLog, calls>>
    /\ UNCHANGED <<decodeVars, configVars>>

\* the environment an Image reads; what it does not read is left at one value
InitRun ==
    /\ image \in Images
    /\ floki_root \in Roots
    /\ environ \in IF image.kind = "Yaml" /\ image.yaml.kind = "Url"
                      /\ image.yaml.headers.some /\ image.yaml.headers.v # <<>>
                   THEN SUBSET EnvVars ELSE {EnvVars}
    /\ fsContent \in IF image.kind = "Yaml" /\ image.yaml.kind = "File"
                     THEN FsOutcomes ELSE {[ok |-> FALSE]}
    /\ remote \in IF image.kind = "Yaml" /\ image.yaml.kind = "Url"
                  THEN RemoteOutcomes ELSE {[sent |-> FALSE]}
    /\ call = "none"
    /\ pc = "idle"
    /\ pending = <<>>
    /\ builder = <<>>
    /\ child = "none"
    /\ childStatus = None
    /\ exit_status = None
    /\ result = NoResult
    /\ spawnLog = <<>>
    /\ waits = 0
    /\ fileReads = 0
    /\ netRequests = 0
    /\ nameLog = <<>>
    /\ obtainLog = <<>>
    /\ calls = 0

NoDecode == [shape |-> "none"]
NoConfig == [tag |-> "None"]

IdleDecode == din = NoDecode /\ dout = NoResult
IdleConfig ==
    /\ cfgPath = MkPath(FALSE, <<>>)
    /\ cfgOpen = FALSE
    /\ cfgParsed = NoConfig
    /\ cfgOut = NoResult

Init == InitRun /\ IdleDecode /\ IdleConfig

Next ==
    \/ Call_name
    \/ HeaderStep
    \/ Send
    \/ Obtain_Command
    \/ Obtain_Other
    \/ Spawn
    \/ ChildExit
    \/ Wait
    \/ WaitError
    \/ Return

Spec == Init /\ [][Next]_vars

(***************************************************************************)
(* Properties of name() and obtain_image(), checked under Spec.           *)
(***************************************************************************)
IsUrl == image.kind = "Yaml" /\ image.yaml.kind = "Url"
IsFile == image.kind = "Yaml" /\ image.yaml.kind = "File"

\* the variables the headers of a Url image name
HeaderVars ==
    IF IsUrl /\ image.yaml.headers.some
    THEN {image.yaml.headers.v[i][2] : i \in DOMAIN image.yaml.headers.v}
    ELSE {}

\* C1: on a Name, Build or Exec image, name() spawns nothing, reads no file
\* and sends no request, and every call returns the same string: the literal
\* for Name, build.name followed by ":floki" for Build (also when the
\* declared name already carries a tag), the image field for Exec.
C1_NamePure ==
    image.kind \in {"Name", "Build", "Exec"} =>
        /\ \A i \in DOMAIN nameLog :
              /\ nameLog[i].tag = "Ok"
              /\ nameLog[i].v =
                    (CASE image.kind = "Name" -> image.s
                       [] image.kind = "Build" -> image.build.name \o ":floki"
                       [] image.kind = "Exec" -> image.exec.image)
        /\ \A i, j \in DOMAIN nameLog : nameLog[i] = nameLog[j]
        /\ call = "name" =>
              /\ spawnLog = <<>>
              /\ child = "none"
              /\ fileReads = 0
              /\ netRequests = 0

C1_Witness ==
    /\ image.kind = "Build"
    /\ image.build.name = "bar:2.0"
    /\ nameLog = <<Ok("bar:2.0:floki"), Ok("bar:2.0:floki")>>

\* the contents name() retrieves, if it gets that far
RetrievedText ==
    IF IsFile
    THEN (IF fsContent.ok THEN Some(fsContent.text) ELSE None)
    ELSE (IF HeaderVars \subseteq environ /\ Fetched(remote).tag = "Ok"
          THEN Some(Fetched(remote).v) ELSE None)

HasDocument ==
    /\ image.kind = "Yaml"
    /\ RetrievedText.some
    /\ load_from_str(RetrievedText.v).ok
    /\ load_from_str(RetrievedText.v).docs # <<>>

FirstDocument == load_from_str(RetrievedText.v).docs[1]

\* the node a key segment leads to from a node, as the claim describes it: a
\* segment that parses as a non-negative integer indexes a sequence by
\* position (and, if intKeys, a mapping by that integer as its key), any
\* other segment indexes a mapping by the segment string; BadValue stands
\* for "cannot be resolved"
C4_Step(node, seg, intKeys) ==
    LET n == parse_usize(seg)
    IN  IF n.ok
        THEN IF node.t = "Array" /\ n.x < Len(node.v) THEN node.v[n.x + 1]
             ELSE IF intKeys /\ node.t = "Hash"
                     /\ \E e \in 1..Len(node.h) :
                           node.h[e][1].t = "Integer" /\ node.h[e][1].i = n.x
             THEN node.h[CHOOSE e \in 1..Len(node.h) :
                           node.h[e][1].t = "Integer" /\ node.h[e][1].i = n.x][2]
             ELSE BadValue
        ELSE IF node.t = "Hash"
                /\ \E e \in 1..Len(node.h) :
                      node.h[e][1].t = "String" /\ node.h[e][1].s = seg
             THEN node.h[CHOOSE e \in 1..Len(node.h) :
                           node.h[e][1].t = "String" /\ node.h[e][1].s = seg][2]
             ELSE BadValue

RECURSIVE C4_Resolve(_, _, _)
C4_Resolve(node, segs, intKeys) ==
    IF node.t = "BadValue" THEN BadValue
    ELSE IF segs = <<>> THEN node
    ELSE C4_Resolve(C4_Step(node, Head(segs), intKeys), Tail(segs), intKeys)

\* name() on a retrieved document agrees with the resolution described
C4_Agrees(intKeys) ==
    HasDocument =>
        \A i \in DOMAIN nameLog :
            LET end == C4_Resolve(FirstDocument, split(image.yaml.key), intKeys)
            IN  IF end.t = "String"
                THEN nameLog[i] = Ok(to_string(end.s))
                ELSE nameLog[i].tag = "Err"

\* the four examples on {a: [10, 20, {b: "x"}]}
C4_Examples ==
    (HasDocument /\ RetrievedText.v = TextA) =>
        \A i \in DOMAIN nameLog :
            /\ image.yaml.key = <<"a", ".", "2", ".", "b">> => nameLog[i] = Ok("x")
            /\ image.yaml.key \in { <<"a", ".", "5">>,
                                   <<"a", ".", "2", ".", "c">>,
                                   <<"a">> } => nameLog[i].tag = "Err"

\* C4 as claimed: an integer segment indexes only a sequence, by position
C4_Original == C4_Agrees(FALSE) /\ C4_Examples

\* C4, amended: the key is resolved one segment at a time; a segment that
\* parses as a non-negative integer indexes a sequence by position or a
\* mapping by that integer as its key, any other segment indexes a mapping
\* by the segment string; name() fails when a segment cannot be resolved or
\* the final node is no string and returns that string otherwise.
C4_Amended == C4_Agrees(TRUE) /\ C4_Examples

C4_Witness ==
    /\ IsFile
    /\ fsContent = [ok |-> TRUE, text |-> TextB]
    /\ image.yaml.key = <<"a", ".", "0">>
    /\ nameLog = <<Ok("i")>>

\* C5: on a Url image with headers, a request is sent only after every
\* header's variable was looked up and found; if one is unset the call
\* returns the error naming an unset variable and sends no request.
C5_EnvBeforeSend ==
    (IsUrl /\ image.yaml.headers.some) =>
        /\ (pc = "send" \/ netRequests > 0) =>
              /\ HeaderVars \subseteq environ
              /\ pending = <<>>
              /\ Len(builder) = Len(image.yaml.headers.v)
        /\ (pc = "done" /\ ~(HeaderVars \subseteq environ)) =>
              /\ netRequests = 0
              /\ \E v \in HeaderVars \ environ :
                    result = Err(Context("Couldn't fetch environment variable " \o v))

C5_Witness ==
    /\ IsUrl
    /\ image.yaml.headers = Some(<< <<"TOKEN", "MY_VAR">>, <<"X-B", "OTHER_VAR">> >>)
    /\ environ = {"MY_VAR"}
    /\ pc = "done"
    /\ builder = << <<"TOKEN", "value-of-MY_VAR">> >>
    /\ result = Err(Context("Couldn't fetch environment variable OTHER_VAR"))
    /\ netRequests = 0

\* one acquisition attempt of the Build arm: nothing spawned before the
\* spawn, one command spawned and at most one wait after it, no second spawn
C6_OneAttempt ==
    /\ Len(spawnLog) <= 1
    /\ waits <= 1
    /\ pc = "spawn" => spawnLog = <<>> /\ child = "none" /\ waits = 0
    /\ pc = "wait" => Len(spawnLog) = 1 /\ child # "none" /\ waits = 0
    /\ pc = "done" => Len(spawnLog) = 1
    /\ pc \in {"spawn", "wait", "done"}

C6_SpawnFailed ==
    child = "none" /\ waits = 0 /\ result = Err(IoError("spawn"))

C6_Exited ==
    /\ child = "exited"
    /\ waits = 1
    /\ exit_status = childStatus
    /\ IF childStatus.v = Exited(0)
       THEN result = Ok(image.build.name \o ":floki")
       ELSE result = Err([kind |-> "FailedToBuildImage",
                          image |-> image.build.name \o ":floki",
                          exit_status |-> [process_description |-> "docker build",
                                           exit_status |-> childStatus.v]])

C6_WaitFailed ==
    child # "none" /\ waits = 1 /\ exit_status = None /\ result = Err(IoError("wait"))

\* C6 as claimed: the attempt ends with the spawn's os error, or with the
\* child exited and Ok("<name>:floki") for exit code 0 and FailedToBuildImage
\* for any other exit code or a signal
C6_Original ==
    (image.kind = "Build" /\ call = "obtain_image") =>
        /\ C6_OneAttempt
        /\ pc = "done" => C6_SpawnFailed \/ C6_Exited

\* C6, amended: each obtain_image() call on a Build image makes one attempt
\* and never retries; a failed spawn returns the os error without waiting;
\* otherwise the call waits once, and returns the os error if the wait
\* itself fails, Ok("<name>:floki") exactly when the child exited with code
\* 0, and FailedToBuildImage with the image "<name>:floki", the description
\* "docker build" and the raw status for any other exit code or a signal.
\* It returns Ok or FailedToBuildImage only after the child has exited.
C6_Amended ==
    (image.kind = "Build" /\ call = "obtain_image") =>
        /\ C6_OneAttempt
        /\ pc = "done" => C6_SpawnFailed \/ C6_Exited \/ C6_WaitFailed
        /\ (pc = "done" /\ result.tag = "Ok") =>
              child = "exited" /\ childStatus.v = Exited(0)

C6_Witness ==
    /\ image.kind = "Build"
    /\ image.build.name = "foo"
    /\ call = "obtain_image"
    /\ pc = "done"
    /\ childStatus = Some(Signaled(9))
    /\ result = Err(FailedToBuildImage("foo:floki", "docker build", Signaled(9)))

\* C7: obtain_image() on a Name or Yaml image spawns nothing and returns what
\* name() returns, Ok or Err alike; on every image, an Ok(n) of obtain_image
\* carries the n that name() returns.
C7_ObtainIsName ==
    /\ image.kind \in {"Name", "Yaml"} =>
          /\ call = "obtain_image" => spawnLog = <<>> /\ child = "none" /\ waits = 0
          /\ \A i \in DOMAIN obtainLog : \A j \in DOMAIN nameLog :
                obtainLog[i] = nameLog[j]
    /\ \A i \in DOMAIN obtainLog : \A j \in DOMAIN nameLog :
          obtainLog[i].tag = "Ok" => nameLog[j] = obtainLog[i]

C7_Witness ==
    /\ IsUrl
    /\ Len(obtainLog) = 1
    /\ Len(nameLog) = 1
    /\ obtainLog[1].tag = "Err"
    /\ obtainLog[1].e.msg = "Couldn't find key a.5 in file https://example.com/example.yaml"

C10_NeverAborts ==
    image.kind = "Yaml" => result.tag # "Panic"

(***************************************************************************)
(* Decoding the `image` field: the Deserialize derives of image.rs:14-60. *)
(* A value is a string, another scalar, a sequence or a mapping; a        *)
(* mapping is a function from its keys to values.                         *)
(***************************************************************************)
VStr(x) == [shape |-> "string", s |-> x]
VInt(n) == [shape |-> "integer", n |-> n]
VBool(b) == [shape |-> "bool", b |-> b]
VNull == [shape |-> "null"]
VSeq(v) == [shape |-> "sequence", v |-> v]
VMap(m) == [shape |-> "mapping", m |-> m]

DOk(x) == [ok |-> TRUE, v |-> x]
DErr == [ok |-> FALSE]

\* PathBuf from the strings of the model
ParsePath(x) ==
    CASE x = "Dockerfile" -> MkPath(FALSE, <<"Dockerfile">>)
      [] x = "Dockerfile.test" -> MkPath(FALSE, <<"Dockerfile.test">>)
      [] x = "." -> MkPath(FALSE, <<".">>)
      [] x = "./context" -> MkPath(FALSE, <<".", "context">>)
      [] x = "doc.yaml" -> MkPath(FALSE, <<"doc.yaml">>)
      [] x = "/abs/doc.yaml" -> MkPath(TRUE, <<"abs", "doc.yaml">>)

\* Url::parse on the strings of the model
ParseUrl(x) ==
    IF x = "https://example.com/example.yaml" THEN DOk(x) ELSE DErr

DeString(v) == IF v.shape = "string" THEN DOk(v.s) ELSE DErr

DePathBuf(v) == IF v.shape = "string" THEN DOk(ParsePath(v.s)) ELSE DErr

\* Option<String>: null is None
DeOptString(v) ==
    IF v.shape = "null" THEN DOk(None)
    ELSE IF v.shape = "string" THEN DOk(Some(v.s))
    ELSE DErr

\* Vec<String>
DeVecString(v) ==
    IF v.shape = "sequence" /\ \A i \in DOMAIN v.v : v.v[i].shape = "string"
    THEN DOk([i \in DOMAIN v.v |-> v.v[i].s])
    ELSE DErr

\* Url
DeUrl(v) == IF v.shape = "string" THEN ParseUrl(v.s) ELSE DErr

\* the entries of a HashMap in the order in which it iterates over them
\* (the order is the map's own; the maps decoded here hold at most one entry)
HashMapEntries(m) ==
    CHOOSE es \in [1..Cardinality(DOMAIN m) -> {<<k, m[k].s>> : k \in DOMAIN m}] :
        \A k \in DOMAIN m : \E i \in DOMAIN es : es[i][1] = k

\* Option<HashMap<String, String>>
DeHeaders(v) ==
    IF v.shape = "null" THEN DOk(None)
    ELSE IF v.shape = "mapping" /\ \A k \in DOMAIN v.m : v.m[k].shape = "string"
    THEN DOk(Some(HashMapEntries(v.m)))
    ELSE DErr

\* BuildSpec with no field defaulted
DeBuildSpec_NoDefaults(v) ==
    IF v.shape # "mapping" THEN DErr
    ELSE LET name == IF "name" \in DOMAIN v.m
                     THEN DeString(v.m["name"]) ELSE DErr
             dockerfile == IF "dockerfile" \in DOMAIN v.m
                     THEN DePathBuf(v.m["dockerfile"]) ELSE DErr
             context == IF "context" \in DOMAIN v.m
                     THEN DePathBuf(v.m["context"]) ELSE DErr
             target == IF "target" \in DOMAIN v.m
                     THEN DeOptString(v.m["target"]) ELSE DOk(None)
         IN  IF name.ok /\ dockerfile.ok /\ context.ok /\ target.ok
             THEN DOk(BuildSpec(name.v, dockerfile.v, context.v, target.v))
             ELSE DErr

\* BuildSpec (image.rs:14-22): a field is decoded when present; an absent
\* field takes its default, an absent Option is None, an absent field
\* without default fails the decode; unknown fields are ignored
DeBuildSpec(v) ==
    IF v.shape # "mapping" THEN DErr
    ELSE LET name == IF "name" \in DOMAIN v.m
                     THEN DeString(v.m["name"]) ELSE DErr
             dockerfile == IF "dockerfile" \in DOMAIN v.m
                     THEN DePathBuf(v.m["dockerfile"]) ELSE DOk(default_dockerfile)
             context == IF "context" \in DOMAIN v.m
                     THEN DePathBuf(v.m["context"]) ELSE DOk(default_context)
             target == IF "target" \in DOMAIN v.m
                     THEN DeOptString(v.m["target"]) ELSE DOk(None)
         IN  IF name.ok /\ dockerfile.ok /\ context.ok /\ target.ok
             THEN DOk(BuildSpec(name.v, dockerfile.v, context.v, target.v))
             ELSE DErr

\* ExecSpec (image.rs:38-43)
DeExecSpec(v) ==
    IF v.shape # "mapping" THEN DErr
    ELSE LET command == IF "command" \in DOMAIN v.m
                     THEN DeString(v.m["command"]) ELSE DErr
             args == IF "args" \in DOMAIN v.m
                     THEN DeVecString(v.m["args"]) ELSE DErr
             img == IF "image" \in DOMAIN v.m
                     THEN DeString(v.m["image"]) ELSE DErr
         IN  IF command.ok /\ args.ok /\ img.ok
             THEN DOk(ExecSpec(command.v, args.v, img.v))
             ELSE DErr

\* YamlSpec (image.rs:24-36), untagged: File is tried before Url
DeYamlSpec(v) ==
    IF v.shape # "mapping" THEN DErr
    ELSE LET file == IF "file" \in DOMAIN v.m
                     THEN DePathBuf(v.m["file"]) ELSE DErr
             key == IF "key" \in DOMAIN v.m
                     THEN DeString(v.m["key"]) ELSE DErr
             url == IF "url" \in DOMAIN v.m
                     THEN DeUrl(v.m["url"]) ELSE DErr
             headers == IF "headers" \in DOMAIN v.m
                     THEN DeHeaders(v.m["headers"]) ELSE DOk(None)
         IN  IF file.ok /\ key.ok THEN DOk(YamlFile(file.v, key.v))
             ELSE IF url.ok /\ key.ok /\ headers.ok
             THEN DOk(YamlUrl(url.v, key.v, headers.v))
             ELSE DErr

\* Image (image.rs:53-60), untagged: the variants are tried in declared
\* order and the first that decodes is taken; keys a variant does not name
\* are ignored
DeImage(v) ==
    IF v.shape = "string" THEN Ok(ImageName(v.s))
    ELSE IF v.shape # "mapping"
    THEN Err(Context("data did not match any variant of untagged enum Image"))
    ELSE LET build == IF "build" \in DOMAIN v.m
                     THEN DeBuildSpec(v.m["build"]) ELSE DErr
             yaml == IF "yaml" \in DOMAIN v.m
                     THEN DeYamlSpec(v.m["yaml"]) ELSE DErr
             exec == IF "exec" \in DOMAIN v.m
                     THEN DeExecSpec(v.m["exec"]) ELSE DErr
         IN  IF build.ok THEN Ok(ImageBuild(build.v))
             ELSE IF yaml.ok THEN Ok(ImageYaml(yaml.v))
             ELSE IF exec.ok THEN Ok(ImageExec(exec.v))
             ELSE Err(Context("data did not match any variant of untagged enum Image"))

\* the values of a `build` key
BuildVals ==
    { VMap([name |-> VStr("foo")]),
      VMap([name |-> VStr("foo"), dockerfile |-> VStr("Dockerfile.test"),
            context |-> VStr("./context"), target |-> VStr("builder")]),
      VMap([name |-> VStr("foo"), colour |-> VStr("red")]),
      VMap([dockerfile |-> VStr("Dockerfile.test")]),
      VMap([name |-> VInt(5)]),
      VMap([name |-> VStr("foo"), target |-> VInt(5)]),
      VStr("foo") }

\* the values of an `exec` key
ExecVals ==
    { VMap([command |-> VStr("foo"), args |-> VSeq(<<VStr("build")>>),
            image |-> VStr("foobuild:1.0.0")]),
      VMap([command |-> VStr("foo"), args |-> VSeq(<<>>)]),
      VMap([command |-> VStr("foo"), args |-> VStr("build"),
            image |-> VStr("foobuild:1.0.0")]) }

KeyRust == <<"v", ".", "R">>

\* the values of a `yaml` key
YamlVals ==
    { VMap([file |-> VStr("doc.yaml"), key |-> VStr(KeyRust)]),
      VMap([url |-> VStr("https://example.com/example.yaml"),
            key |-> VStr(KeyRust)]),
      VMap([url |-> VStr("https://example.com/example.yaml"),
            key |-> VStr(KeyRust),
            headers |-> VMap([TOKEN |-> VStr("MY_VAR")])]),
      VMap([url |-> VStr("not a url"), key |-> VStr(KeyRust)]),
      VMap([url |-> VStr("https://example.com/example.yaml"),
            key |-> VStr(KeyRust), headers |-> VStr("TOKEN")]),
      VMap([key |-> VStr(KeyRust)]),
      VMap([file |-> VStr("/abs/doc.yaml"),
            url |-> VStr("https://example.com/example.yaml"),
            key |-> VStr(KeyRust)]) }

\* the mappings with any of the keys build, yaml, exec and colour
MappingInputs ==
    { VMap([k \in ks |->
                CASE k = "build" -> b [] k = "yaml" -> y [] k = "exec" -> e
                  [] k = "colour" -> VStr("red")]) :
          ks \in SUBSET {"build", "yaml", "exec", "colour"},
          b \in BuildVals, y \in YamlVals, e \in ExecVals }

DecodeInputs ==
    { VStr("foo"), VStr("foo:1.0"), VInt(5), VBool(TRUE), VNull,
      VSeq(<<VStr("foo")>>) } \cup MappingInputs

InitDecode == din \in DecodeInputs /\ dout = NoResult

IdleRun ==
    /\ image = ImageName("foo")
    /\ floki_root = MkPath(TRUE, <<"work">>)
    /\ environ = {}
    /\ fsContent = [ok |-> FALSE]
    /\ remote = [sent |-> FALSE]
    /\ call = "none"
    /\ pc = "idle"
    /\ pending = <<>>
    /\ builder = <<>>
    /\ child = "none"
    /\ childStatus = None
    /\ exit_status = None
    /\ result = NoResult
    /\ spawnLog = <<>>
    /\ waits = 0
    /\ fileReads = 0
    /\ netRequests = 0
    /\ nameLog = <<>>
    /\ obtainLog = <<>>
    /\ calls = 0

\* the `image` field is decoded
Decode ==
    /\ dout = NoResult
    /\ din # NoDecode
    /\ dout' = DeImage(din)
    /\ UNCHANGED <<din, runVars, configVars>>

InitDecodeOnly == InitDecode /\ IdleRun /\ IdleConfig

NextDecode == Decode

SpecDecode == InitDecodeOnly /\ [][NextDecode]_vars

(***************************************************************************)
(* Properties of the decode, checked under SpecDecode.                    *)
(***************************************************************************)
Decoded == dout # NoResult
HasKey(v, k) == v.shape = "mapping" /\ k \in DOMAIN v.m
IsStr(v) == v.shape = "string"
Opt(m, k, p(_)) == k \in DOMAIN m => p(m[k])

\* the shape of a build value: name required, the rest optional
C9_BuildShape(b) ==
    /\ HasKey(b, "name") /\ IsStr(b.m.name)
    /\ Opt(b.m, "dockerfile", IsStr)
    /\ Opt(b.m, "context", IsStr)
    /\ Opt(b.m, "target", LAMBDA t : t.shape \in {"string", "null"})

\* the shape of an exec value: command, args, image
C9_ExecShape(e) ==
    /\ HasKey(e, "command") /\ IsStr(e.m.command)
    /\ HasKey(e, "args") /\ e.m.args.shape = "sequence"
    /\ \A i \in DOMAIN e.m.args.v : IsStr(e.m.args.v[i])
    /\ HasKey(e, "image") /\ IsStr(e.m.image)

\* the shape of a yaml value with a document file
C9_FileShape(y) ==
    /\ HasKey(y, "file") /\ IsStr(y.m.file)
    /\ HasKey(y, "key") /\ IsStr(y.m.key)

\* the shape of a yaml value with a url, a key and optional headers
C9_UrlShape(y) ==
    /\ HasKey(y, "url") /\ IsStr(y.m.url)
    /\ y.m.url.s = "https://example.com/example.yaml"
    /\ HasKey(y, "key") /\ IsStr(y.m.key)
    /\ Opt(y.m, "headers",
           LAMBDA h : \/ h.shape = "null"
                      \/ /\ h.shape = "mapping"
                         /\ \A k \in DOMAIN h.m : IsStr(h.m[k]))

C9_HasBuild == HasKey(din, "build") /\ C9_BuildShape(din.m.build)
C9_HasYaml ==
    HasKey(din, "yaml") /\ (C9_FileShape(din.m.yaml) \/ C9_UrlShape(din.m.yaml))
C9_HasExec == HasKey(din, "exec") /\ C9_ExecShape(din.m.exec)

C9_Or(m, k, d) == IF k \in DOMAIN m THEN m[k].s ELSE d

C2_BothRejected ==
    (Decoded /\ C9_HasBuild /\ C9_HasExec) => dout.tag = "Err"

(***************************************************************************)
(* FlokiConfig::from_file (config.rs:100-143).                            *)
(***************************************************************************)
\* default_shell
default_shell == [kind |-> "Shell", s |-> "sh"]

\* default_mount
default_mount == MkPath(TRUE, <<"src">>)

\* default_to_false
default_to_false == FALSE

\* default_entrypoint
default_entrypoint == [suppress |-> TRUE]

\* FlokiConfig (config.rs:75-97) with the fields other than image defaulted
DefaultConfig(img) ==
    [image |-> img,
     init |-> <<>>,
     shell |-> default_shell,
     mount |-> default_mount,
     docker_switches |-> <<>>,
     forward_ssh_agent |-> default_to_false,
     dind |-> [kind |-> "Toggle", b |-> FALSE],
     forward_user |-> default_to_false,
     volumes |-> <<>>,
     entrypoint |-> default_entrypoint]

\* a configuration that sets the other fields
CustomConfig(img) ==
    [image |-> img,
     init |-> <<"make deps">>,
     shell |-> [kind |-> "TwoShell", inner |-> "bash", outer |-> "sh"],
     mount |-> MkPath(TRUE, <<"mnt">>),
     docker_switches |-> <<"--rm">>,
     forward_ssh_agent |-> TRUE,
     dind |-> [kind |-> "Image", image |-> "dind:custom"],
     forward_user |-> TRUE,
     volumes |-> << <<"cache", [shared |-> TRUE, mount |-> MkPath(TRUE, <<"cache">>)]>> >>,
     entrypoint |-> [suppress |-> FALSE]]

ConfigDocPaths ==
    { MkPath(FALSE, <<"doc.yaml">>),
      MkPath(FALSE, <<"sub", "doc.yaml">>),
      MkPath(FALSE, <<"..", "doc.yaml">>),
      MkPath(TRUE, <<"abs", "doc.yaml">>) }

ConfigImages ==
    { ImageName("foo"),
      ImageBuild(BuildSpec("foo", default_dockerfile, default_context, None)),
      ImageExec(ExecSpec("foo", <<"build">>, "foobuild:1.0.0")),
      ImageYaml(YamlUrl("https://example.com/example.yaml", KeyRust, None)) }
        \cup { ImageYaml(YamlFile(f, KeyRust)) : f \in ConfigDocPaths }

ConfigPaths ==
    { MkPath(TRUE, <<"cfg", "dir", "floki.yaml">>),
      MkPath(FALSE, <<"proj", "floki.yaml">>),
      MkPath(FALSE, <<"floki.yaml">>) }

\* serde_yaml::from_reader: a parse error, or the configuration
ParseOutcomes ==
    {Err([kind |-> "parse"])}
        \cup {Ok(DefaultConfig(i)) : i \in ConfigImages}
        \cup {Ok(CustomConfig(i)) : i \in ConfigImages}

\* config.rs:120-134: in the arm `YamlSpec::File { file, .. }` the name
\* `file` is the document path of the yaml spec, which hides the `file`
\* argument of from_file: is_relative, parent and the join all act on the
\* document path
FixYamlPath(file, config) ==
    IF config.image.kind = "Yaml" /\ config.image.yaml.kind = "File"
    THEN LET inner == config.image.yaml.file
         IN  IF is_relative(inner)
             THEN IF parent(inner).some
                  THEN Ok([config EXCEPT
                              !.image.yaml.file = join(parent(inner).v, inner)])
                  ELSE Err([kind |-> "InternalAssertionFailed",
                            description |->
                                "could not construct path to external yaml file '"
                                    \o PathStr(inner) \o "'"])
             ELSE Ok(config)
    ELSE Ok(config)

from_file(file, opened, parsed) ==
    IF ~opened
    THEN Err([kind |-> "ProblemOpeningConfigYaml", name |-> PathStr(file)])
    ELSE IF parsed.tag # "Ok"
    THEN Err([kind |-> "ProblemParsingConfigYaml", name |-> PathStr(file)])
    ELSE FixYamlPath(file, parsed.v)

FromFile ==
    /\ cfgParsed # NoConfig
    /\ cfgOut = NoResult
    /\ cfgOut' = from_file(cfgPath, cfgOpen, cfgParsed)
    /\ UNCHANGED <<cfgPath, cfgOpen, cfgParsed, runVars, decodeVars>>

InitConfig ==
    /\ cfgPath \in ConfigPaths
    /\ cfgOpen \in BOOLEAN
    /\ cfgParsed \in ParseOutcomes
    /\ cfgOut = NoResult

InitConfigOnly == InitConfig /\ IdleRun /\ IdleDecode

NextConfig == FromFile

SpecConfig == InitConfigOnly /\ [][NextConfig]_vars

(***************************************************************************)
(* Properties of from_file, checked under SpecConfig.                     *)
(***************************************************************************)
Loaded == cfgOut # NoResult /\ cfgOpen /\ cfgParsed.tag = "Ok"

\* C3: from_file stores a relative document path P of a File image as the
\* directory of the configuration file joined with P, leaves an absolute P
\* unchanged, and leaves every other image and every other field unchanged.
C3_RelativeToConfig ==
    Loaded =>
        LET config == cfgParsed.v
            img == config.image
        IN  IF img.kind = "Yaml" /\ img.yaml.kind = "File" /\ ~img.yaml.file.abs
            THEN cfgOut = Ok([config EXCEPT !.image.yaml.file =
                                [abs |-> cfgPath.abs,
                                 comps |-> SubSeq(cfgPath.comps, 1,
                                                  Len(cfgPath.comps) - 1)
                                               \o img.yaml.file.comps]])
            ELSE cfgOut = Ok(config)

====
